---------------------------- MODULE Spec2Model ----------------------------
(***************************************************************************)
(* KAPPA (Kandji AutoPkg Processor Actions): the custom-app match          *)
(* resolver of helpers/utils.py (_find_lib_item_match,                     *)
(* _find_lib_item_dynamic) and its caller update_custom_app of KAPPA.py.   *)
(*                                                                         *)
(* Strings are sequences of one-character strings, so that the regular     *)
(* expressions, the substring tests ("in") and difflib's SequenceMatcher   *)
(* are computed character by character, as the code computes them.        *)
(***************************************************************************)
EXTENDS Integers, Sequences, FiniteSets, TLC

(***************************************************************************)
(* Characters and strings                                                  *)
(***************************************************************************)
Digits == {"0", "1", "2", "3", "4", "5", "6", "7", "8", "9"}

Letters ==
    {"a", "b", "c", "d", "e", "f", "g", "h", "i", "j", "k", "l", "m",
     "n", "o", "p", "q", "r", "s", "t", "u", "v", "w", "x", "y", "z",
     "A", "B", "C", "D", "E", "F", "G", "H", "I", "J", "K", "L", "M",
     "N", "O", "P", "Q", "R", "S", "T", "U", "V", "W", "X", "Y", "Z"}

\* The class \w of Python's re module (ASCII part).
WordChars == Letters \cup Digits \cup {"_"}

\* s[lo..hi] (1-based, inclusive); the empty string when hi < lo.
Slice(s, lo, hi) == SubSeq(s, lo, hi)

\* Whether t occurs in s starting at position i.
OccursAt(t, s, i) ==
    /\ i >= 1
    /\ i + Len(t) - 1 <= Len(s)
    /\ \A k \in 1..Len(t) : s[i + k - 1] = t[k]

\* Python's "t in s" on strings: t is a substring of s.
Contains(s, t) == \E i \in 1..(Len(s) - Len(t) + 1) : OccursAt(t, s, i)

\* str.endswith
EndsWith(s, t) == Len(t) <= Len(s) /\ OccursAt(t, s, Len(s) - Len(t) + 1)

\* The position of the last "/" of s, 0 when there is none.
LastSlash(s) ==
    LET at == {i \in 1..Len(s) : s[i] = "/"}
    IN  IF at = {} THEN 0 ELSE CHOOSE i \in at : \A j \in at : j <= i

\* os.path.basename: what follows the last "/".
Basename(s) == Slice(s, LastSlash(s) + 1, Len(s))

(***************************************************************************)
(* Regular expressions of _find_lib_item_dynamic                           *)
(***************************************************************************)
\* Whether _\w{8}(?=.pkg) matches s at position i: "_", eight word
\* characters, then (not consumed) any character followed by "pkg".
SuffixMatchAt(s, i) ==
    /\ i + 12 <= Len(s)
    /\ s[i] = "_"
    /\ \A k \in 1..8 : s[i + k] \in WordChars
    /\ s[i + 10] = "p" /\ s[i + 11] = "k" /\ s[i + 12] = "g"

RECURSIVE StripFrom(_, _)
\* re.sub over s from position i on: matches are taken leftmost, then the
\* scan goes on behind the match.
StripFrom(s, i) ==
    IF i > Len(s) THEN <<>>
    ELSE IF SuffixMatchAt(s, i) THEN StripFrom(s, i + 9)
    ELSE <<s[i]>> \o StripFrom(s, i + 1)

\* re.sub(r"_\w{8}(?=.pkg)", "", s): drops the upload identifier.
StripSuffix(s) == StripFrom(s, 1)

\* re.sub(r"[ ]", ".", s)
SpacesToDots(s) == [i \in 1..Len(s) |-> IF s[i] = " " THEN "." ELSE s[i]]

IsDigitOrDot(c) == c \in Digits \cup {"."}

\* re.sub("[^0-9\\.]", "", s)
DropNonVersionChars(s) == SelectSeq(s, IsDigitOrDot)

RECURSIVE CollapseFrom(_, _)
\* re.sub(r"[.]{2,}", ".", s): a run of two or more dots becomes one dot.
CollapseFrom(s, i) ==
    IF i > Len(s) THEN <<>>
    ELSE IF s[i] = "." /\ i > 1 /\ s[i - 1] = "." THEN CollapseFrom(s, i + 1)
    ELSE <<s[i]>> \o CollapseFrom(s, i + 1)

CollapseDots(s) == CollapseFrom(s, 1)

\* re.sub(r"^\.|\.$", "", s): a dot at the start and a dot at the end go.
StripDots(s) ==
    LET lo == IF Len(s) >= 1 /\ s[1] = "." THEN 2 ELSE 1
        hi == IF Len(s) >= lo /\ s[Len(s)] = "." THEN Len(s) - 1 ELSE Len(s)
    IN  Slice(s, lo, hi)

\* The substitutions with the dot runs collapsed before the other
\* characters are dropped.
SanitizeCollapsingFirst(s) ==
    StripDots(DropNonVersionChars(CollapseDots(SpacesToDots(StripSuffix(s)))))

\* reduce(re.sub, re_replacements.items(), maybepkg): the five
\* substitutions in the dict's order.
SanitizeVersion(s) ==
    StripDots(CollapseDots(DropNonVersionChars(SpacesToDots(StripSuffix(s)))))

(***************************************************************************)
(* difflib.SequenceMatcher(None, a, b).ratio()                             *)
(* (no junk; the autojunk heuristic needs 200 characters and more)         *)
(***************************************************************************)
RECURSIVE CommonRun(_, _, _, _, _, _)
\* The length of the longest common run a[i..] = b[j..] inside a[..ahi],
\* b[..bhi].
CommonRun(a, b, i, j, ahi, bhi) ==
    IF i > ahi \/ j > bhi \/ a[i] # b[j] THEN 0
    ELSE 1 + CommonRun(a, b, i + 1, j + 1, ahi, bhi)

SetMax(S) == CHOOSE x \in S : \A y \in S : y <= x

SetMin(S) == CHOOSE x \in S : \A y \in S : x <= y

\* find_longest_match(alo, ahi, blo, bhi): <<i, j, k>>, the longest block
\* a[i..i+k-1] = b[j..j+k-1]; of all longest blocks the one starting
\* earliest in a, and of those the one starting earliest in b. k = 0 when
\* nothing matches. (Ranges are 1-based and inclusive here.)
FindLongestMatch(a, b, alo, ahi, blo, bhi) ==
    LET runs == {<<i, j, CommonRun(a, b, i, j, ahi, bhi)>> :
                    i \in alo..ahi, j \in blo..bhi}
        k    == SetMax({r[3] : r \in runs} \cup {0})
        best == {r \in runs : r[3] = k}
        i    == SetMin({r[1] : r \in best})
        j    == SetMin({r[2] : r \in {r \in best : r[1] = i}})
    IN  IF k = 0 THEN <<alo, blo, 0>> ELSE <<i, j, k>>

RECURSIVE MatchedSize(_, _, _, _, _, _)
\* get_matching_blocks: the longest block, then the same to its left and
\* to its right; the sum of the blocks' sizes.
MatchedSize(a, b, alo, ahi, blo, bhi) ==
    IF alo > ahi \/ blo > bhi THEN 0
    ELSE LET m == FindLongestMatch(a, b, alo, ahi, blo, bhi)
         IN  IF m[3] = 0 THEN 0
             ELSE m[3]
                  + MatchedSize(a, b, alo, m[1] - 1, blo, m[2] - 1)
                  + MatchedSize(a, b, m[1] + m[3], ahi, m[2] + m[3], bhi)

\* ratio() = 2.0 * M / T as the fraction <<2M, T>>; 1.0 for two empty
\* strings. The floats of difflib are compared through their fractions:
\* for strings this short two ratios are equal as floats exactly when they
\* are equal as fractions.
Ratio(a, b) ==
    LET T == Len(a) + Len(b)
    IN  IF T = 0 THEN <<1, 1>>
        ELSE <<2 * MatchedSize(a, b, 1, Len(a), 1, Len(b)), T>>

\* r >= q and r > q on fractions with positive denominators.
RatioGeq(r, q) == r[1] * q[2] >= q[1] * r[2]

RatioGt(r, q) == r[1] * q[2] > q[1] * r[2]

(***************************************************************************)
(* packaging.version.parse of a sanitized version                          *)
(***************************************************************************)
DigitVal(c) ==
    CASE c = "0" -> 0 [] c = "1" -> 1 [] c = "2" -> 2 [] c = "3" -> 3
      [] c = "4" -> 4 [] c = "5" -> 5 [] c = "6" -> 6 [] c = "7" -> 7
      [] c = "8" -> 8 [] c = "9" -> 9

RECURSIVE ReleaseFrom(_, _, _)
\* The release segment N(.N)* of v from position i on, as integers; cur is
\* the component read so far.
ReleaseFrom(v, i, cur) ==
    IF i > Len(v) THEN <<cur>>
    ELSE IF v[i] = "." THEN <<cur>> \o ReleaseFrom(v, i + 1, 0)
    ELSE ReleaseFrom(v, i + 1, 10 * cur + DigitVal(v[i]))

RECURSIVE DropTrailingZeros(_)
\* _cmpkey: trailing zero components do not count (1.0 == 1).
DropTrailingZeros(r) ==
    IF r # <<>> /\ r[Len(r)] = 0 THEN DropTrailingZeros(SubSeq(r, 1, Len(r) - 1))
    ELSE r

\* A sanitized version is a valid PEP 440 version unless it is empty: it
\* holds digits and single inner dots only.
ValidVersion(v) == v # <<>>

\* The comparison key of parse(v). A valid version compares by its
\* release; the empty string is a LegacyVersion where the vendored
\* packaging still has one (epoch -1: below every valid version).
VersionKey(v) ==
    IF ValidVersion(v) THEN <<0, DropTrailingZeros(ReleaseFrom(v, 1, 0))>>
    ELSE <<-1, <<>>>>

RECURSIVE TupleLess(_, _)
\* Python's tuple order on integer tuples.
TupleLess(x, y) ==
    IF y = <<>> THEN FALSE
    ELSE IF x = <<>> THEN TRUE
    ELSE IF x[1] # y[1] THEN x[1] < y[1]
    ELSE TupleLess(Tail(x), Tail(y))

\* parse(v) < parse(w)
VersionLess(v, w) ==
    LET kv == VersionKey(v)
        kw == VersionKey(w)
    IN  \/ kv[1] < kw[1]
        \/ kv[1] = kw[1] /\ TupleLess(kv[2], kw[2])

(***************************************************************************)
(* Sequences as Python lists and insertion-ordered dicts                   *)
(***************************************************************************)
InSeq(x, s) == \E i \in 1..Len(s) : s[i] = x

RECURSIVE Dedup(_)
\* The keys of a dict filled from s in order: a key keeps the place of its
\* first insertion.
Dedup(s) ==
    IF s = <<>> THEN <<>>
    ELSE LET front == Dedup(SubSeq(s, 1, Len(s) - 1))
             last  == s[Len(s)]
         IN  IF InSeq(last, front) THEN front ELSE Append(front, last)

RECURSIVE InsertSortedBeforeEqual(_, _, _)
\* x put into the descending sequence s before the first element that is
\* not above it: an equal element that arrived earlier ends up behind x.
InsertSortedBeforeEqual(s, x, less) ==
    IF s = <<>> THEN <<x>>
    ELSE IF <<x, Head(s)>> \notin less THEN <<x>> \o s
    ELSE <<Head(s)>> \o InsertSortedBeforeEqual(Tail(s), x, less)

RECURSIVE InsertSorted(_, _, _)
\* x put into the descending sequence s behind every element that is not
\* below it: equal elements keep their order of arrival. less is the
\* set of the pairs <<y, z>> with key(y) < key(z).
InsertSorted(s, x, less) ==
    IF s = <<>> THEN <<x>>
    ELSE IF <<Head(s), x>> \in less THEN <<x>> \o s
    ELSE <<Head(s)>> \o InsertSorted(Tail(s), x, less)

RECURSIVE SortedReverse(_, _)
\* sorted(s, key=..., reverse=True): descending and stable.
SortedReverse(s, less) ==
    IF s = <<>> THEN <<>>
    ELSE InsertSorted(SortedReverse(SubSeq(s, 1, Len(s) - 1), less),
                      s[Len(s)], less)

(***************************************************************************)
(* Timestamps of the Kandji API                                            *)
(***************************************************************************)
\* A timestamp string, by its format and the instant it writes:
\*   "frac"    %Y-%m-%dT%H:%M:%S.%fZ   (sec and usec)
\*   "nofrac"  %Y-%m-%dT%H:%M:%SZ      (sec; usec is 0)
Ts(fmt, sec, usec) == [fmt |-> fmt, sec |-> sec, usec |-> usec]

FracFmt == "frac"

NoFracFmt == "nofrac"

\* datetime.strptime(ts, fmt): whether it parses (else ValueError), and the
\* instant in microseconds. astimezone() keeps the order of instants.
StrptimeOk(ts, fmt) == ts.fmt = fmt

Instant(ts) == ts.sec * 1000000 + ts.usec

\* A string neither format parses, such as the date alone.
OtherFmt == "other"

\* parse_dt with the second format never tried.
ParseDtFracOnly(ts) == StrptimeOk(ts, FracFmt)

\* parse_dt: the format with fractional seconds, then the one without.
ParseDtOk(ts) == StrptimeOk(ts, FracFmt) \/ StrptimeOk(ts, NoFracFmt)

parse_dt(ts) == Instant(ts)

(***************************************************************************)
(* _parse_enforcement of helpers/configs.py                                *)
(***************************************************************************)
UpperCase ==
    <<"A", "B", "C", "D", "E", "F", "G", "H", "I", "J", "K", "L", "M", "N", "O", "P", "Q", "R", "S", "T", "U", "V", "W", "X", "Y", "Z">>

LowerCase ==
    <<"a", "b", "c", "d", "e", "f", "g", "h", "i", "j", "k", "l", "m", "n", "o", "p", "q", "r", "s", "t", "u", "v", "w", "x", "y", "z">>

\* str.lower() and str.upper() of one character (ASCII).
LowerChar(c) ==
    IF \E i \in 1..26 : UpperCase[i] = c
    THEN LowerCase[CHOOSE i \in 1..26 : UpperCase[i] = c]
    ELSE c

UpperChar(c) ==
    IF \E i \in 1..26 : LowerCase[i] = c
    THEN UpperCase[CHOOSE i \in 1..26 : LowerCase[i] = c]
    ELSE c

\* enforcement.lower()
lower(s) == [i \in 1..Len(s) |-> LowerChar(s[i])]

\* The enforcement values of the configuration and of the Kandji API.
audit_enforce == <<"a", "u", "d", "i", "t", "_", "e", "n", "f", "o", "r", "c", "e">>

continuously_enforce == <<"c", "o", "n", "t", "i", "n", "u", "o", "u", "s", "l", "y", "_", "e", "n", "f", "o", "r", "c", "e">>

self_service == <<"s", "e", "l", "f", "_", "s", "e", "r", "v", "i", "c", "e">>

no_enforcement == <<"n", "o", "_", "e", "n", "f", "o", "r", "c", "e", "m", "e", "n", "t">>

install_once == <<"i", "n", "s", "t", "a", "l", "l", "_", "o", "n", "c", "e">>

\* Values that are no strings: Python's False and None; a value of more than
\* one character in one place is no string of the model.
False == <<"False">>

NoneValue == <<"None">>

\* What a call leaves when .lower() is looked up on a value that is no
\* string.
AttributeError == <<"AttributeError">>

IsStr(value) == value \notin {False, NoneValue, AttributeError}

\* The match statement over the value as it is written.
MatchEnforcement(lowered) ==
    CASE lowered = audit_enforce -> continuously_enforce
      [] lowered = self_service -> no_enforcement
      [] lowered = continuously_enforce -> audit_enforce
      [] lowered = no_enforcement -> self_service
      [] lowered = install_once -> install_once
      [] OTHER -> False

\* A variant that matches the value without lowering it.
ParseEnforcementCaseSensitive(value) ==
    IF ~IsStr(value) THEN AttributeError ELSE MatchEnforcement(value)

\* _parse_enforcement(enforcement)
parse_enforcement(value) ==
    IF ~IsStr(value) THEN AttributeError ELSE MatchEnforcement(lower(value))

(***************************************************************************)
(* The tenant's custom apps and the newly built package                    *)
(***************************************************************************)
None == "None"

\* self.pkg_name: GoogleChrome-2.2.pkg
pkg_name ==
    <<"G", "o", "o", "g", "l", "e", "C", "h", "r", "o", "m", "e", "-", "2",
      ".", "2", ".", "p", "k", "g">>

NameChrome ==
    <<"C", "h", "r", "o", "m", "e">>

NameChromeTest ==
    <<"C", "h", "r", "o", "m", "e", " ", "T", "e", "s", "t">>

NameChromeBeta ==
    <<"C", "h", "r", "o", "m", "e", " ", "B", "e", "t", "a">>

\* file_key values: apps/<package>_<upload identifier>.pkg
\* GoogleChrome-2_aaaaaaaa.pkg: version 2, ratio 36/38
FileChrome2a ==
    <<"a", "p", "p", "s", "/", "G", "o", "o", "g", "l", "e", "C", "h", "r",
      "o", "m", "e", "-", "2", "_", "a", "a", "a", "a", "a", "a", "a", "a",
      ".", "p", "k", "g">>

\* GoogleChrome-2_bbbbbbbb.pkg: version 2, ratio 36/38
FileChrome2b ==
    <<"a", "p", "p", "s", "/", "G", "o", "o", "g", "l", "e", "C", "h", "r",
      "o", "m", "e", "-", "2", "_", "b", "b", "b", "b", "b", "b", "b", "b",
      ".", "p", "k", "g">>

\* GoogleChrome-1.2_cccccccc.pkg: version 1.2, ratio 38/40
FileChrome12 ==
    <<"a", "p", "p", "s", "/", "G", "o", "o", "g", "l", "e", "C", "h", "r",
      "o", "m", "e", "-", "1", ".", "2", "_", "c", "c", "c", "c", "c", "c",
      "c", "c", ".", "p", "k", "g">>

\* GoogleChromX-v2b_dddddddd.pkg: version 2, ratio 34/40 = 0.85
FileChromX2 ==
    <<"a", "p", "p", "s", "/", "G", "o", "o", "g", "l", "e", "C", "h", "r",
      "o", "m", "X", "-", "v", "2", "b", "_", "d", "d", "d", "d", "d", "d",
      "d", "d", ".", "p", "k", "g">>

\* GoogleChrome_eeeeeeee.pkg: no version, ratio 32/36
FileChromeNoVers ==
    <<"a", "p", "p", "s", "/", "G", "o", "o", "g", "l", "e", "C", "h", "r",
      "o", "m", "e", "_", "e", "e", "e", "e", "e", "e", "e", "e", ".", "p",
      "k", "g">>

\* GoogleChrome Beta-2_hhhhhhhh.pkg: version 2, ratio 36/43 (0.837)
FileBeta2 ==
    <<"a", "p", "p", "s", "/", "G", "o", "o", "g", "l", "e", "C", "h", "r",
      "o", "m", "e", " ", "B", "e", "t", "a", "-", "2", "_", "h", "h", "h",
      "h", "h", "h", "h", "h", ".", "p", "k", "g">>

\* ChromeBeta-3_iiiiiiii.pkg: version 3, ratio 22/36 (0.611)
FileBeta3 ==
    <<"a", "p", "p", "s", "/", "C", "h", "r", "o", "m", "e", "B", "e", "t",
      "a", "-", "3", "_", "i", "i", "i", "i", "i", "i", "i", "i", ".", "p",
      "k", "g">>

CustomApp(id, name, file_key, enforcement, ss, category, created, uploaded, modified) ==
    [id |-> id, name |-> name, file_key |-> file_key,
     install_enforcement |-> enforcement,
     show_in_self_service |-> ss, self_service_category_id |-> category,
     created_at |-> created, file_updated |-> uploaded, updated_at |-> modified]

AppC1 ==
    CustomApp("c1", NameChrome, FileChrome2a, "no_enforcement", TRUE, "7",
              Ts(FracFmt, 100, 0), Ts(FracFmt, 20, 0), Ts(FracFmt, 20, 0))

AppC2 ==
    CustomApp("c2", NameChrome, FileChrome2b, "continuously_enforce", FALSE, "7",
              Ts(FracFmt, 101, 0), Ts(NoFracFmt, 20, 0), Ts(FracFmt, 10, 500000))

AppC3 ==
    CustomApp("c3", NameChrome, FileChrome12, "no_enforcement", TRUE, "7",
              Ts(NoFracFmt, 90, 0), Ts(FracFmt, 5, 0), Ts(FracFmt, 5, 0))

AppC4 ==
    CustomApp("c4", NameChrome, FileChromX2, "no_enforcement", TRUE, "8",
              Ts(FracFmt, 95, 0), Ts(NoFracFmt, 10, 0), Ts(FracFmt, 30, 0))

AppCT ==
    CustomApp("ct", NameChromeTest, FileChrome2a, "no_enforcement", TRUE, "9",
              Ts(FracFmt, 100, 0), Ts(FracFmt, 20, 0), Ts(FracFmt, 25, 0))

AppB1 ==
    CustomApp("b1", NameChromeBeta, FileBeta2, "install_once", FALSE, None,
              Ts(FracFmt, 80, 0), Ts(FracFmt, 1, 0), Ts(FracFmt, 1, 0))

AppB2 ==
    CustomApp("b2", NameChromeBeta, FileBeta3, "install_once", FALSE, None,
              Ts(NoFracFmt, 81, 0), Ts(FracFmt, 2, 0), Ts(FracFmt, 2, 0))

AppB3 ==
    CustomApp("b3", NameChromeBeta, FileChromeNoVers, "install_once", FALSE, None,
              Ts(FracFmt, 82, 0), Ts(FracFmt, 3, 0), Ts(FracFmt, 3, 0))

\* A name with a single quote, and the custom app that bears it.
NameQuoted ==
    <<"B", "o", "b", "'", "s">>

AppQ1 ==
    CustomApp("q1", NameQuoted, FileChrome12, "install_once", FALSE, None,
              Ts(FracFmt, 70, 0), Ts(FracFmt, 7, 0), Ts(FracFmt, 7, 0))

\* A second "Chrome" on GoogleChrome-2_bbbbbbbb.pkg, uploaded after c1.
AppC6 ==
    CustomApp("c6", NameChrome, FileChrome2b, "no_enforcement", TRUE, "7",
              Ts(FracFmt, 102, 0), Ts(FracFmt, 50, 0), Ts(NoFracFmt, 50, 0))

\* Custom apps with a timestamp parse_dt cannot parse: file_updated of u1,
\* updated_at of u2.
AppU1 ==
    CustomApp("u1", NameChrome, FileChrome2b, "no_enforcement", TRUE, "7",
              Ts(FracFmt, 103, 0), Ts(OtherFmt, 0, 0), Ts(FracFmt, 40, 0))

AppU2 ==
    CustomApp("u2", NameChrome, FileChromX2, "no_enforcement", TRUE, "7",
              Ts(FracFmt, 104, 0), Ts(NoFracFmt, 30, 0), Ts(OtherFmt, 0, 0))

\* Two more "Chrome", on PKGs named unlike the newly built one (their ratios
\* are below the limit).
AppC7 ==
    CustomApp("c7", NameChrome, FileBeta2, "install_once", FALSE, None,
              Ts(FracFmt, 105, 0), Ts(FracFmt, 60, 0), Ts(FracFmt, 60, 0))

AppC8 ==
    CustomApp("c8", NameChrome, FileBeta3, "install_once", FALSE, None,
              Ts(FracFmt, 106, 0), Ts(FracFmt, 61, 0), Ts(FracFmt, 61, 0))

\* A second "Chrome Test", shown in Self Service under the category of the
\* prod name.
AppCT2 ==
    CustomApp("ct2", NameChromeTest, FileChrome2b, "no_enforcement", TRUE, "7",
              Ts(FracFmt, 107, 0), Ts(FracFmt, 62, 0), Ts(FracFmt, 62, 0))

(***************************************************************************)
(* _find_lib_item_dynamic                                                  *)
(***************************************************************************)
DotPkg == <<".", "p", "k", "g">>

\* No entry: the app field of a result that returns none.
NoApp == [id |-> None]

\* PKG names (no path) of the custom apps whose file_key ends in .pkg.
all_pkg_names(custom_apps) ==
    LET pkgs == SelectSeq(custom_apps, LAMBDA app : EndsWith(app.file_key, DotPkg))
    IN  [i \in 1..Len(pkgs) |-> Basename(pkgs[i].file_key)]

\* The file_key values of the tenant's custom apps, and their PKG names.
FileKeys ==
    {FileChrome2a, FileChrome2b, FileChrome12, FileChromX2, FileChromeNoVers,
     FileBeta2, FileBeta3}

PkgNames == {Basename(file_key) : file_key \in FileKeys}

\* similarity_scores[pkg]: the ratio of the PKG name without its upload
\* identifier against the name of the newly built PKG (the dict, over
\* every PKG name a custom app can bear).
similarity_scores ==
    [pkg \in PkgNames |-> Ratio(StripSuffix(pkg), pkg_name)]

similarity_score(pkg) == similarity_scores[pkg]

\* pkgs_versions[pkg]: the sanitized version of the PKG name (the dict,
\* over every PKG name a custom app can bear).
pkgs_versions == [pkg \in PkgNames |-> SanitizeVersion(pkg)]

pkg_version(pkg) == pkgs_versions[pkg]

\* The keys of sorted_similar_pkgs: the PKG names by descending score.
sorted_similar_pkgs(custom_apps) ==
    LET keys == Dedup(all_pkg_names(custom_apps))
        K    == {keys[i] : i \in 1..Len(keys)}
        less == {p \in K \X K :
                    RatioGt(similarity_score(p[2]), similarity_score(p[1]))}
    IN  SortedReverse(keys, less)

\* ratio_limit = 0.85
ratio_limit == <<85, 100>>

\* AboveLimit with the limit itself left out.
AboveLimitStrictly(pkg) == RatioGt(similarity_score(pkg), ratio_limit)

AboveLimit(pkg) == RatioGeq(similarity_score(pkg), ratio_limit)

\* possible_pkgs: the PKG names at or above the limit, in ranking order.
threshold_pkgs(custom_apps) == SelectSeq(sorted_similar_pkgs(custom_apps), AboveLimit)

RECURSIVE matching_pkgs(_, _)
\* For each app of possible_apps in turn, the possible PKGs found in its
\* file_key.
matching_pkgs(possible_apps, possible_pkgs) ==
    IF possible_apps = <<>> THEN <<>>
    ELSE SelectSeq(possible_pkgs,
                   LAMBDA pkg : Contains(Head(possible_apps).file_key, pkg))
         \o matching_pkgs(Tail(possible_apps), possible_pkgs)

\* pkgs_versions_sorted: the candidates by descending parsed version.
pkgs_versions_sorted(possible_pkgs) ==
    LET keys == Dedup(possible_pkgs)
        K    == {keys[i] : i \in 1..Len(keys)}
        less == {p \in K \X K :
                    VersionLess(pkg_version(p[1]), pkg_version(p[2]))}
    IN  SortedReverse(keys, less)

\* highest_vers: the candidates whose version string holds the first
\* candidate's version string ("in").
highest_vers(sorted_pkgs) ==
    LET custom_pkg_vers == pkg_version(sorted_pkgs[1])
    IN  SelectSeq(sorted_pkgs,
                  LAMBDA pkg : Contains(pkg_version(pkg), custom_pkg_vers))

\* next(app for app in self.custom_apps if pkg in app.get("file_key"))
app_record(custom_apps, pkg) ==
    LET at == {i \in 1..Len(custom_apps) : Contains(custom_apps[i].file_key, pkg)}
    IN  custom_apps[SetMin(at)]

\* The key of min(): (parse_dt(pkg_uploaded), parse_dt(custom_li_modified)).
UpdatedKeyLess(r1, r2) ==
    \/ parse_dt(r1.file_updated) < parse_dt(r2.file_updated)
    \/ /\ parse_dt(r1.file_updated) = parse_dt(r2.file_updated)
       /\ parse_dt(r1.updated_at) < parse_dt(r2.updated_at)

\* oldest_app: min() returns the first of the smallest.
oldest_app(custom_apps, pkgs) ==
    LET smallest == {i \in 1..Len(pkgs) :
                       \A j \in 1..Len(pkgs) :
                           ~UpdatedKeyLess(app_record(custom_apps, pkgs[j]),
                                           app_record(custom_apps, pkgs[i]))}
    IN  pkgs[SetMin(smallest)]

\* The result of _find_lib_item_dynamic with what it computed on the way.
\*   ret   "app" (the entry app), "False", or "raise" (exception exc)
DynamicResult(ret, app, exc, seeded, above, possible, chosen, entries) ==
    [ran |-> TRUE, ret |-> ret, app |-> app, exc |-> exc, seeded |-> seeded,
     threshold_pkgs |-> above, possible_pkgs |-> possible,
     custom_pkg_name |-> chosen, matching_entry |-> entries]

\* _find_lib_item_match has not called _find_lib_item_dynamic.
NoDynamic ==
    [ran |-> FALSE, ret |-> "False", app |-> NoApp, exc |-> "", seeded |-> FALSE,
     threshold_pkgs |-> <<>>, possible_pkgs |-> <<>>,
     custom_pkg_name |-> <<>>, matching_entry |-> <<>>]

\* possible_pkgs once possible_apps is taken into account: the PKGs of
\* possible_apps when there are any, the PKGs above the limit otherwise.
possible_pkgs(possible_apps, above) ==
    LET matching == matching_pkgs(possible_apps, above)
    IN  IF possible_apps # <<>> /\ matching # <<>> THEN matching ELSE above

\* custom_pkg_name: the first of the ranking, or the oldest of the highest
\* when there are several.
custom_pkg_name(custom_apps, sorted_pkgs, highest) ==
    IF Len(highest) > 1 THEN oldest_app(custom_apps, highest)
    ELSE sorted_pkgs[1]

\* matching_entry: the custom apps bearing the selected PKG, narrowed to
\* those bearing provided_app_name when there are several and a name was
\* provided.
matching_entry(custom_apps, possible_apps, pkg) ==
    LET by_pkg == SelectSeq(custom_apps,
                            LAMBDA app : Contains(app.file_key, pkg))
    IN  IF Len(by_pkg) > 1 /\ possible_apps # <<>>
        THEN SelectSeq(by_pkg,
                 LAMBDA app : Contains(app.name, possible_apps[1].name))
        ELSE by_pkg

\* min() parses file_updated and updated_at of every one of the highest.
UnparsedUpdated(custom_apps, highest) ==
    \E i \in 1..Len(highest) :
        \/ ~ParseDtOk(app_record(custom_apps, highest[i]).file_updated)
        \/ ~ParseDtOk(app_record(custom_apps, highest[i]).updated_at)

\* ReturnEntry with the StopIteration of next(iter([])) left uncaught.
ReturnEntryUncaught(seeded, above, possible, pkg, entries) ==
    IF entries = <<>>
    THEN DynamicResult("raise", NoApp, "StopIteration", seeded, above,
                       possible, pkg, entries)
    ELSE DynamicResult("app", entries[1], "", seeded, above, possible, pkg,
                       entries)

\* custom_app = next(iter(matching_entry)), or StopIteration caught.
ReturnEntry(seeded, above, possible, pkg, entries) ==
    IF entries = <<>>
    THEN DynamicResult("False", NoApp, "", seeded, above, possible, pkg, entries)
    ELSE DynamicResult("app", entries[1], "", seeded, above, possible, pkg,
                       entries)

\* The lookup from the selected PKG on.
FromSelected(custom_apps, possible_apps, above, possible, pkg) ==
    ReturnEntry(possible_apps # <<>>, above, possible, pkg,
                matching_entry(custom_apps, possible_apps, pkg))

\* The lookup from the highest versions on.
FromHighest(custom_apps, possible_apps, above, possible, sorted_pkgs, highest) ==
    IF Len(highest) > 1 /\ UnparsedUpdated(custom_apps, highest)
    THEN DynamicResult("raise", NoApp, "ValueError", possible_apps # <<>>,
                       above, possible, <<>>, <<>>)
    ELSE FromSelected(custom_apps, possible_apps, above, possible,
                      custom_pkg_name(custom_apps, sorted_pkgs, highest))

\* The lookup from the ranking by version on.
FromSorted(custom_apps, possible_apps, above, possible, sorted_pkgs) ==
    IF sorted_pkgs = <<>>
    \* next(iter({})) raises StopIteration, caught
    THEN DynamicResult("False", NoApp, "", possible_apps # <<>>, above,
                       possible, <<>>, <<>>)
    ELSE FromHighest(custom_apps, possible_apps, above, possible, sorted_pkgs,
                     highest_vers(sorted_pkgs))

\* The lookup from possible_pkgs on.
\* legacy: whether pip's vendored packaging still parses an invalid
\* version as a LegacyVersion (packaging < 22) instead of raising
\* InvalidVersion.
FromPossible(custom_apps, possible_apps, legacy, above, possible) ==
    IF ~legacy /\ \E i \in 1..Len(possible) :
                      ~ValidVersion(pkg_version(possible[i]))
    THEN DynamicResult("raise", NoApp, "InvalidVersion", possible_apps # <<>>,
                       above, possible, <<>>, <<>>)
    ELSE FromSorted(custom_apps, possible_apps, above, possible,
                    pkgs_versions_sorted(possible))

\* The lookup from the PKGs above the limit on.
FromThreshold(custom_apps, possible_apps, legacy, above) ==
    FromPossible(custom_apps, possible_apps, legacy, above,
                 possible_pkgs(possible_apps, above))

find_lib_item_dynamic(custom_apps, possible_apps, legacy) ==
    FromThreshold(custom_apps, possible_apps, legacy,
                  threshold_pkgs(custom_apps))

(***************************************************************************)
(* _find_lib_item_match                                                    *)
(***************************************************************************)
\* The result of _find_lib_item_match:
\*   ret        "app" (the entry app), "False", "None", or "raise"
\*   via        the branch that decided
\*   app_picker the custom apps whose name is the target name
\*   reported   the custom apps written to the Slack body of duplicates
\*   notified   whether slack_notify was called with that body
\*   dynamic    the result of _find_lib_item_dynamic, when it ran
MatchResult(ret, app, exc, via, app_picker, reported, notified, dynamic) ==
    [ret |-> ret, app |-> app, exc |-> exc, via |-> via,
     app_picker |-> app_picker, reported |-> reported, notified |-> notified,
     dynamic |-> dynamic]

\* Nothing matched yet.
NoMatchYet == MatchResult("unset", NoApp, "", "unset", <<>>, <<>>, FALSE, NoDynamic)

\* The result of a dynamic lookup handed on by _find_lib_item_match.
ViaDynamic(app_picker, dyn) ==
    MatchResult(dyn.ret, dyn.app, dyn.exc, "dynamic", app_picker, <<>>, FALSE, dyn)

\* app_picker_by_ss without the test of show_in_self_service.
app_picker_by_category(app_picker, category_id) ==
    SelectSeq(app_picker,
              LAMBDA app : app.self_service_category_id = category_id)

\* app_picker_by_ss: the hits shown in Self Service under the category.
app_picker_by_ss(app_picker, category_id) ==
    SelectSeq(app_picker,
              LAMBDA app : /\ app.show_in_self_service = TRUE
                           /\ app.self_service_category_id = category_id)

\* The duplicates report: created_at is parsed with the fractional format
\* only; the first hit it does not parse raises ValueError.
FirstUnparsed(app_picker) ==
    LET bad == {i \in 1..Len(app_picker) :
                   ~StrptimeOk(app_picker[i].created_at, FracFmt)}
    IN  IF bad = {} THEN 0 ELSE SetMin(bad)

\* NoHit with the two policy flags consulted in the other order.
NoHitDynamicFirst(custom_apps, app_picker, auto_create, dynamic_lookup, legacy) ==
    IF dynamic_lookup = TRUE
    THEN ViaDynamic(app_picker, find_lib_item_dynamic(custom_apps, <<>>, legacy))
    ELSE IF auto_create = TRUE
    THEN MatchResult("False", NoApp, "", "auto_create", app_picker, <<>>,
                     FALSE, NoDynamic)
    ELSE MatchResult("False", NoApp, "", "no_match", app_picker, <<>>, FALSE,
                     NoDynamic)

\* No custom app bears the name: create as new (False), or the dynamic
\* lookup over all custom apps, or next(iter([])) raising StopIteration
\* (False).
NoHit(custom_apps, app_picker, auto_create, dynamic_lookup, legacy) ==
    IF auto_create = TRUE
    THEN MatchResult("False", NoApp, "", "auto_create", app_picker, <<>>,
                     FALSE, NoDynamic)
    ELSE IF dynamic_lookup = TRUE
    THEN ViaDynamic(app_picker, find_lib_item_dynamic(custom_apps, <<>>, legacy))
    ELSE MatchResult("False", NoApp, "", "no_match", app_picker, <<>>, FALSE,
                     NoDynamic)

\* The report of duplicates: ValueError at the first hit whose created_at
\* does not parse, else the Slack notification and None.
Duplicates(app_picker, unparsed) ==
    IF unparsed # 0
    THEN MatchResult("raise", NoApp, "ValueError", "ambiguous", app_picker,
                     SubSeq(app_picker, 1, unparsed - 1), FALSE, NoDynamic)
    ELSE MatchResult("None", NoApp, "", "ambiguous", app_picker, app_picker,
                     TRUE, NoDynamic)

\* Several custom apps bear the name: the one of the Self Service
\* category, or the dynamic lookup among them, or the report of duplicates.
SeveralHits(custom_apps, app_picker, dynamic_lookup, enforcement, category_id, legacy) ==
    IF /\ category_id # None
       /\ enforcement = "no_enforcement"
       /\ Len(app_picker_by_ss(app_picker, category_id)) = 1
    THEN MatchResult("app", app_picker_by_ss(app_picker, category_id)[1], "",
                     "category", app_picker, <<>>, FALSE, NoDynamic)
    ELSE IF dynamic_lookup = TRUE
    THEN ViaDynamic(app_picker,
                    find_lib_item_dynamic(custom_apps, app_picker, legacy))
    ELSE Duplicates(app_picker, FirstUnparsed(app_picker))

\* OneHit returning a copy of the hit under an id of its own.
OneHitCopy(app_picker) ==
    MatchResult("app", [app_picker[1] EXCEPT !.id = "copy"], "", "exact",
                app_picker, <<>>, FALSE, NoDynamic)

\* One custom app bears the name: next(iter(app_picker)).
OneHit(app_picker) ==
    MatchResult("app", app_picker[1], "", "exact", app_picker, <<>>, FALSE,
                NoDynamic)

\* MatchHits sending a single hit through the narrowing of several hits.
MatchHitsNarrowingOne(custom_apps, app_picker, auto_create, dynamic_lookup, enforcement, category_id, legacy) ==
    IF app_picker = <<>>
    THEN NoHit(custom_apps, app_picker, auto_create, dynamic_lookup, legacy)
    ELSE SeveralHits(custom_apps, app_picker, dynamic_lookup, enforcement,
                     category_id, legacy)

\* The branch of _find_lib_item_match for the hits app_picker.
MatchHits(custom_apps, app_picker, auto_create, dynamic_lookup, enforcement, category_id, legacy) ==
    IF app_picker = <<>>
    THEN NoHit(custom_apps, app_picker, auto_create, dynamic_lookup, legacy)
    ELSE IF Len(app_picker) > 1
    THEN SeveralHits(custom_apps, app_picker, dynamic_lookup, enforcement,
                     category_id, legacy)
    ELSE OneHit(app_picker)

find_lib_item_match(custom_apps, name, auto_create, dynamic_lookup, enforcement, category_id, legacy) ==
    MatchHits(custom_apps,
              SelectSeq(custom_apps, LAMBDA app : name = app.name),
              auto_create, dynamic_lookup, enforcement, category_id, legacy)

(***************************************************************************)
(* The processor's state                                                   *)
(***************************************************************************)
VARIABLES
    tenant_apps,             \* the custom apps of the Kandji tenant
    custom_apps,             \* self.custom_apps: the list last fetched
    custom_app_name,         \* self.custom_app_name
    custom_app_enforcement,  \* self.custom_app_enforcement
    ss_category_id,          \* self.ss_category_id
    default_auto_create,     \* self.default_auto_create
    default_dynamic_lookup,  \* self.default_dynamic_lookup
    dry_run,                 \* self.dry_run
    audit_script,            \* the audit script file: "original" or "customized"
    audit_backup,            \* its .bak file: None, or the content saved
    pc,                      \* where the run stands
    action,                  \* the action _validate_curl_response is called for
    lib_item_dict,           \* the result of _find_lib_item_match
    requests,                \* the modifying requests sent (POST, PATCH)
    retries,                 \* the retries after HTTP 503 so far
    returned,                \* what update_custom_app returned ("" not yet)
    exception,               \* the exception that ended the run ("" none)
    app_names,               \* self.app_names: the configured names, in order
    name_index,              \* the place in app_names of the name at work
    recipe_create_new,       \* self.recipe_create_new
    notifications,           \* the calls of slack_notify so far
    maybepkg,                \* a PKG name handed to the version sanitizer
    parsed_vers,             \* what the sanitizer made of it, pass after pass
    enforcement,             \* a value handed to _parse_enforcement
    parsed_enforcers,        \* what it returned, pass after pass
    validated,               \* the last call of _validate_curl_response
    listings,                \* the GETs of the custom apps sent so far
    config_enforcement,      \* the enforcement _set_defaults_enforcements derived
    test_category_id,        \* self.test_category_id
    name_keys,               \* the keys of self.app_names, in order
    test_app                 \* self.test_app

vars ==
    <<tenant_apps, custom_apps, custom_app_name, custom_app_enforcement,
      ss_category_id, default_auto_create, default_dynamic_lookup, dry_run,
      audit_script, audit_backup, pc, action, lib_item_dict, requests,
      retries, returned, exception, app_names, name_index, recipe_create_new,
      notifications, maybepkg, parsed_vers, validated, listings,
      config_enforcement, test_category_id, name_keys, test_app,
      enforcement, parsed_enforcers>>

\* What no step of create_custom_app, update_custom_app and
\* _validate_curl_response changes.
config ==
    <<tenant_apps, custom_app_name, ss_category_id, default_auto_create,
      default_dynamic_lookup, dry_run, app_names, name_index,
      recipe_create_new, maybepkg, parsed_vers, config_enforcement,
      test_category_id, name_keys, test_app, enforcement, parsed_enforcers>>

\* The catalog sizes and the 503 retries the model follows.
MaxApps == 3

MaxDynamicApps == 4

MaxRetries == 1

\* self.s3_key: the file_key of the PKG uploaded in this run.
s3_key == <<"a", "p", "p", "s", "/", "n", "e", "w", ".", "p", "k", "g">>

RECURSIVE EscapeQuotes(_)
\* self.custom_app_name.replace("'", "'\''")
EscapeQuotes(name) ==
    IF name = <<>> THEN <<>>
    ELSE (IF Head(name) = "'" THEN <<"'", "\\", "'", "'">> ELSE <<Head(name)>>)
         \o EscapeQuotes(Tail(name))

\* The lists of at most n distinct custom apps of pool (ids are unique).
Catalogs(pool, n) ==
    UNION {{apps \in [1..k -> pool] :
                \A i, j \in 1..k : i # j => apps[i].id # apps[j].id} : k \in 0..n}

Enforcements == {"continuously_enforce", "no_enforcement", "install_once"}

\* What holds of every state update_custom_app is entered in, given its
\* inputs: kandji_customize_create_update has escaped the name and, under
\* continuous enforcement, customized the audit script.
Entered ==
    /\ custom_apps = <<>>
    /\ audit_script =
         IF custom_app_enforcement = "continuously_enforce" THEN "customized"
         ELSE "original"
    /\ audit_backup =
         IF custom_app_enforcement = "continuously_enforce" THEN "original"
         ELSE None
    /\ pc = "update"
    /\ action = ""
    /\ lib_item_dict = NoMatchYet
    /\ requests = <<>>
    /\ retries = 0
    /\ returned = ""
    /\ exception = ""
    /\ name_index = 1
    /\ recipe_create_new = FALSE
    /\ notifications = <<>>
    /\ validated = [ran |-> FALSE, action |-> "", http_code |-> 0, ret |-> ""]
    /\ maybepkg = <<>>
    /\ parsed_vers = <<>>
    /\ enforcement = <<>>
    /\ parsed_enforcers = <<>>
    /\ listings = 0
    /\ config_enforcement = custom_app_enforcement
    /\ test_category_id = None
    /\ name_keys = <<"prod_name">>
    /\ test_app = FALSE

Init ==
    /\ tenant_apps \in Catalogs({AppC1, AppC2, AppC3, AppC4, AppCT, AppB1, AppC7, AppC8},
                                MaxApps)
    /\ app_names = <<NameChrome>>
    /\ custom_app_name = EscapeQuotes(NameChrome)
    /\ custom_app_enforcement \in Enforcements
    /\ ss_category_id \in {None, "7"}
    /\ default_auto_create \in BOOLEAN
    /\ default_dynamic_lookup \in BOOLEAN
    /\ dry_run = FALSE
    /\ Entered

\* Inputs that send _find_lib_item_match into _find_lib_item_dynamic
\* whenever the name has no single hit.
InitDynamic ==
    /\ tenant_apps \in Catalogs({AppC1, AppC2, AppC3, AppC4, AppCT, AppB1, AppB2, AppB3},
                                MaxDynamicApps)
    /\ app_names \in {<<NameChrome>>, <<NameChromeBeta>>}
    /\ custom_app_name = EscapeQuotes(app_names[1])
    /\ custom_app_enforcement = "install_once"
    /\ ss_category_id = None
    /\ default_auto_create = FALSE
    /\ default_dynamic_lookup = TRUE
    /\ dry_run = FALSE
    /\ Entered

(***************************************************************************)
(* create_custom_app, update_custom_app, _validate_curl_response           *)
(***************************************************************************)
\* The POST of create_custom_app.
CreateRequest ==
    [method |-> "POST", url |-> "api_custom_apps_url", id |-> None,
     name |-> custom_app_name, file_key |-> s3_key,
     install_enforcement |-> custom_app_enforcement,
     audit_script |-> custom_app_enforcement = "continuously_enforce",
     self_service_category_id |->
         IF custom_app_enforcement # "no_enforcement" THEN None
         ELSE IF test_app = TRUE THEN test_category_id
         ELSE ss_category_id]

\* UpdateRequest with the audit script added by the configured enforcement
\* instead of the entry's.
UpdateRequestByConfig(app) ==
    [method |-> "PATCH", url |-> "api_custom_apps_url", id |-> app.id,
     name |-> <<>>, file_key |-> s3_key,
     install_enforcement |-> None,
     audit_script |-> custom_app_enforcement = "continuously_enforce",
     self_service_category_id |-> None]

\* The PATCH of update_custom_app for the entry app: its URL ends in the
\* entry's id, its data are the file_key and, for an entry under continuous
\* enforcement, the audit script; no name and no enforcement are sent.
UpdateRequest(app) ==
    [method |-> "PATCH", url |-> "api_custom_apps_url", id |-> app.id,
     name |-> <<>>, file_key |-> s3_key,
     install_enforcement |-> None,
     audit_script |-> app.install_enforcement = "continuously_enforce",
     self_service_category_id |-> None]

\* The POST of the PKG to the presigned URL of the storage.
UploadRequest ==
    [method |-> "POST", url |-> "post_url", id |-> None, name |-> pkg_name,
     file_key |-> s3_key, install_enforcement |-> None, audit_script |-> FALSE,
     self_service_category_id |-> None]

\* `action.lower() == "update" or "create"`: the string "create" is true.
UpdateOrCreate(for) == for = "update" \/ TRUE

\* _curl_cmd_exec returns (False, False) when curl exits with a code above
\* 0; in the comparisons of _validate_curl_response False is the integer 0.
CurlFailed == 0

\* _validate_curl_response(http_code, response, action), by what it does:
\*   "True"               success
\*   "create_custom_app"  it calls create_custom_app again
\*   "update_custom_app"  it calls update_custom_app again
\*   "None"               it returns None
\*   "raise"              slack_notify("ERROR", ...), then ProcessorError
\*   "AttributeError"     response.get(...) on the False of a failed curl
validate_curl_response(http_code, for) ==
    IF http_code <= 204
    THEN IF http_code = CurlFailed /\ for \in {"get", "create", "update"}
         THEN "AttributeError"
         ELSE "True"
    ELSE IF http_code = 503 /\ UpdateOrCreate(for)
    THEN IF for = "create" THEN "create_custom_app"
         ELSE IF for = "update" THEN "update_custom_app"
         ELSE "None"
    ELSE "raise"

\* The last call of _validate_curl_response: its arguments and what it did.
Validated(for, http_code) ==
    [ran |-> TRUE, action |-> for, http_code |-> http_code,
     ret |-> validate_curl_response(http_code, for)]

NotValidated == [ran |-> FALSE, action |-> "", http_code |-> 0, ret |-> ""]

\* slack_notify(status, header, ...), as far as the model tells calls apart.
Notification(status, header, for) ==
    [status |-> status, header |-> header, action |-> for]

\* The calls of slack_notify once _validate_curl_response has run.
Notified(for, http_code) ==
    IF validate_curl_response(http_code, for) = "raise"
    THEN Append(notifications, Notification("ERROR", "Failed to", for))
    ELSE IF validate_curl_response(http_code, for) = "True" /\ for \in {"create", "update"}
    THEN Append(notifications, Notification("SUCCESS", "Custom App", for))
    ELSE notifications

\* update_custom_app or create_custom_app returns value.
Return(value) ==
    /\ pc' = "returned"
    /\ returned' = value
    /\ UNCHANGED <<action, requests, exception>>

Raise(exc) ==
    /\ pc' = "raised"
    /\ exception' = exc
    /\ UNCHANGED <<action, requests, returned>>

\* The request goes out and its answer is awaited.
Send(request, for) ==
    /\ requests' = Append(requests, request)
    /\ action' = for
    /\ pc' = "validate"
    /\ UNCHANGED <<returned, exception>>

\* create_custom_app without the check of dry_run.
CreateWhateverDryRun == Send(CreateRequest, "create")

\* create_custom_app: a dry run returns True, else the POST is sent and
\* _validate_curl_response(..., "create") decides.
create_custom_app ==
    IF dry_run = TRUE THEN Return("True") ELSE Send(CreateRequest, "create")

\* create_custom_app called by kandji_customize_create_update, or again by
\* _validate_curl_response.
CreateCustomApp ==
    /\ pc = "create"
    /\ create_custom_app
    /\ UNCHANGED <<config, custom_apps, custom_app_enforcement, audit_script,
                   audit_backup, lib_item_dict, retries, notifications,
                   validated, listings>>

\* The statuses the model answers the custom apps GET with.
GetCodes == {200, 503, 500, CurlFailed}

\* update_custom_app: fetch the custom apps, find the match, then create,
\* update or give up. get_code is the status of the GET; legacy is the
\* vendored packaging's treatment of an invalid version.
update_custom_app(get_code, legacy) ==
    IF validate_curl_response(get_code, "get") # "True"
    \* _validate_curl_response raises, or answers the 503 with None
    THEN /\ Raise(IF validate_curl_response(get_code, "get") = "AttributeError"
                  THEN "AttributeError" ELSE "ProcessorError")
         /\ notifications' = Notified("get", get_code)
         /\ UNCHANGED <<custom_apps, lib_item_dict, custom_app_enforcement,
                        audit_script, audit_backup>>
    ELSE \E found \in {find_lib_item_match(tenant_apps, custom_app_name,
                           default_auto_create, default_dynamic_lookup,
                           custom_app_enforcement, ss_category_id, legacy)} :
           LET deferring ==
                   /\ found.ret = "app"
                   /\ found.app.install_enforcement = "continuously_enforce"
                   /\ custom_app_enforcement # found.app.install_enforcement
           IN  /\ custom_apps' = tenant_apps
               /\ lib_item_dict' = found
               /\ notifications' =
                      IF found.notified
                      THEN Append(notifications,
                                  Notification("ERROR", "Found Duplicates", ""))
                      ELSE notifications
               \* _customize_audit_for_upload, when deferring to the entry
               /\ custom_app_enforcement' =
                      IF deferring THEN found.app.install_enforcement
                      ELSE custom_app_enforcement
               /\ audit_script' = IF deferring THEN "customized" ELSE audit_script
               /\ audit_backup' = IF deferring THEN audit_script ELSE audit_backup
               /\ IF found.ret = "raise" THEN Raise(found.exc)
                  ELSE IF found.ret = "None" THEN Return("False")
                  ELSE IF found.ret = "False"
                  THEN IF default_auto_create = TRUE THEN create_custom_app
                       ELSE Return("False")
                  ELSE IF dry_run = TRUE THEN Return("True")
                  ELSE Send(UpdateRequest(found.app), "update")

UpdateCustomApp ==
    /\ pc = "update"
    /\ \E get_code \in GetCodes, legacy \in BOOLEAN :
           /\ update_custom_app(get_code, legacy)
           /\ validated' = Validated("get", get_code)
    /\ listings' = listings + 1
    /\ UNCHANGED <<config, retries>>

\* The statuses the model answers a POST or PATCH with; a 503 only while
\* the model follows another retry.
AnswerCodes ==
    IF retries < MaxRetries THEN {200, 503, 500, CurlFailed} ELSE {200, 500, CurlFailed}

\* A validator that answers a 503 by returning None at once.
AfterValidatedGivingUp(ret) ==
    IF ret = "True"
    THEN /\ pc' = "returned"
         /\ returned' = "True"
         /\ UNCHANGED <<retries, exception>>
    ELSE IF ret \in {"raise", "AttributeError"}
    THEN /\ pc' = "raised"
         /\ exception' = IF ret = "raise" THEN "ProcessorError" ELSE ret
         /\ UNCHANGED <<retries, returned>>
    ELSE /\ pc' = "returned"
         /\ returned' = "None"
         /\ UNCHANGED <<retries, exception>>

\* What follows _validate_curl_response(http_code, response, action) for
\* "create" and "update": True, the error, or the same operation again.
AfterValidated(ret) ==
    IF ret = "True"
    THEN /\ pc' = "returned"
         /\ returned' = "True"
         /\ UNCHANGED <<retries, exception>>
    ELSE IF ret \in {"raise", "AttributeError"}
    THEN /\ pc' = "raised"
         /\ exception' = IF ret = "raise" THEN "ProcessorError" ELSE ret
         /\ UNCHANGED <<retries, returned>>
    ELSE IF ret = "None"
    THEN /\ pc' = "returned"
         /\ returned' = "None"
         /\ UNCHANGED <<retries, exception>>
    ELSE /\ pc' = action
         /\ retries' = retries + 1
         /\ UNCHANGED <<returned, exception>>

ValidateCurlResponse ==
    /\ pc = "validate"
    /\ \E http_code \in AnswerCodes :
           /\ AfterValidated(validate_curl_response(http_code, action))
           /\ validated' = Validated(action, http_code)
           /\ notifications' = Notified(action, http_code)
    /\ UNCHANGED <<config, custom_apps, custom_app_enforcement, audit_script,
                   audit_backup, action, lib_item_dict, requests, listings>>

Next == UpdateCustomApp \/ CreateCustomApp \/ ValidateCurlResponse

Spec == Init /\ [][Next]_vars

NextDynamic == UpdateCustomApp \/ ValidateCurlResponse

SpecDynamic == InitDynamic /\ [][NextDynamic]_vars

(***************************************************************************)
(* main: the upload, then every app name in turn                           *)
(***************************************************************************)
MaxMainApps == 2

\* self.app_names.values(): the names main iterates over, in the order of
\* the dict.
NameLists ==
    {<<NameChrome>>, <<NameChrome, NameChromeTest>>,
     <<NameChromeTest, NameChrome>>, <<NameQuoted>>, <<NameQuoted, NameChrome>>}

\* The keys of self.app_names as _set_custom_name fills it: prod_name,
\* then test_name.
KeysOf(names) == [i \in 1..Len(names) |-> IF i = 1 THEN "prod_name" ELSE "test_name"]

\* main is about to call upload_custom_app.
InitMain ==
    /\ tenant_apps \in Catalogs({AppC1, AppC2, AppCT, AppQ1}, MaxMainApps)
    /\ app_names \in NameLists
    /\ name_index = 0
    /\ custom_app_name = <<>>   \* main sets it for each name in turn
    /\ custom_app_enforcement \in Enforcements
    /\ ss_category_id = None
    /\ default_auto_create \in BOOLEAN
    /\ default_dynamic_lookup \in BOOLEAN
    /\ dry_run \in BOOLEAN
    /\ recipe_create_new \in BOOLEAN
    /\ custom_apps = <<>>
    /\ audit_script = "original"
    /\ audit_backup = None
    /\ pc = "upload"
    /\ action = ""
    /\ lib_item_dict = NoMatchYet
    /\ requests = <<>>
    /\ retries = 0
    /\ returned = ""
    /\ exception = ""
    /\ notifications = <<>>
    /\ validated = NotValidated
    /\ maybepkg = <<>>
    /\ parsed_vers = <<>>
    /\ enforcement = <<>>
    /\ parsed_enforcers = <<>>
    /\ listings = 0
    /\ config_enforcement = custom_app_enforcement
    /\ test_category_id = None
    /\ name_keys = KeysOf(app_names)
    /\ test_app = FALSE

\* What follows _validate_curl_response for "presign" and "upload" in
\* upload_custom_app and main: the loop over the names after True, the
\* error, or the end of main after None.
AfterUpload(ret, value) ==
    IF ret = "True"
    THEN /\ pc' = "next"
         /\ returned' = "True"
         /\ UNCHANGED exception
    ELSE IF ret \in {"raise", "AttributeError"}
    THEN /\ pc' = "raised"
         /\ exception' = IF ret = "raise" THEN "ProcessorError" ELSE ret
         /\ UNCHANGED returned
    ELSE /\ pc' = "done"
         /\ returned' = value
         /\ UNCHANGED exception

\* upload_custom_app, by the statuses of the presign POST and of the POST
\* to the storage.
upload_custom_app(presign_code, upload_code) ==
    IF validate_curl_response(presign_code, "presign") # "True"
    \* `if not _generate_s3_req(): return False`, unless it raised
    THEN /\ validated' = Validated("presign", presign_code)
         /\ notifications' = Notified("presign", presign_code)
         /\ AfterUpload(validate_curl_response(presign_code, "presign"), "False")
         /\ UNCHANGED requests
    ELSE IF presign_code = CurlFailed
    \* self.s3_generated_req is False: .get("post_data") raises
    THEN /\ validated' = Validated("presign", presign_code)
         /\ AfterUpload("AttributeError", "")
         /\ UNCHANGED <<requests, notifications>>
    ELSE IF dry_run = TRUE
    THEN /\ validated' = Validated("presign", presign_code)
         /\ AfterUpload("True", "True")
         /\ UNCHANGED <<requests, notifications>>
    ELSE /\ requests' = Append(requests, UploadRequest)
         /\ validated' = Validated("upload", upload_code)
         /\ notifications' = Notified("upload", upload_code)
         /\ AfterUpload(validate_curl_response(upload_code, "upload"), "None")

UploadCustomApp ==
    /\ pc = "upload"
    /\ \E presign_code \in GetCodes, upload_code \in GetCodes :
           upload_custom_app(presign_code, upload_code)
    /\ UNCHANGED <<config, custom_apps, custom_app_enforcement, audit_script,
                   audit_backup, action, lib_item_dict, retries, listings>>

\* update_custom_app whatever create_new says.
UpdateWhateverCreateNew == "update"

\* `if self.recipe_create_new is True`: the operation that
\* kandji_customize_create_update calls.
CreateOrUpdate == IF recipe_create_new = TRUE THEN "create" ELSE "update"

\* The next name of main's loop and kandji_customize_create_update up to
\* its call of create_custom_app or update_custom_app: the name is
\* escaped, the audit script customized under continuous enforcement.
EnterCreateUpdate ==
    /\ pc = "next"
    /\ name_index < Len(app_names)
    /\ name_index' = name_index + 1
    /\ custom_app_name' = EscapeQuotes(app_names[name_index + 1])
    /\ audit_script' =
           IF custom_app_enforcement = "continuously_enforce" THEN "customized"
           ELSE audit_script
    /\ audit_backup' =
           IF custom_app_enforcement = "continuously_enforce" THEN audit_script
           ELSE audit_backup
    /\ test_app' = (name_keys[name_index + 1] = "test_name")
    /\ pc' = CreateOrUpdate
    /\ lib_item_dict' = NoMatchYet
    /\ returned' = ""
    /\ UNCHANGED <<tenant_apps, custom_apps, custom_app_enforcement,
                   ss_category_id, default_auto_create, default_dynamic_lookup,
                   dry_run, action, requests, retries, exception, app_names,
                   recipe_create_new, notifications, maybepkg, parsed_vers,
                   validated, listings, config_enforcement, test_category_id,
                   name_keys, enforcement, parsed_enforcers>>

\* create_custom_app or update_custom_app has returned (the value is not
\* looked at): the audit script is restored under continuous enforcement,
\* and main goes on to the next name or ends.
LeaveCreateUpdate ==
    /\ pc = "returned"
    /\ audit_script' =
           IF custom_app_enforcement = "continuously_enforce" THEN audit_backup
           ELSE audit_script
    /\ audit_backup' =
           IF custom_app_enforcement = "continuously_enforce" THEN None
           ELSE audit_backup
    /\ pc' = IF name_index < Len(app_names) THEN "next" ELSE "done"
    /\ UNCHANGED <<config, custom_apps, custom_app_enforcement, action,
                   lib_item_dict, requests, retries, returned, exception,
                   notifications, validated, listings>>

NextMain ==
    \/ UploadCustomApp
    \/ EnterCreateUpdate
    \/ UpdateCustomApp
    \/ CreateCustomApp
    \/ ValidateCurlResponse
    \/ LeaveCreateUpdate

SpecMain == InitMain /\ [][NextMain]_vars

\* Runs over a prod and a test name under no_enforcement, each name with a
\* Self Service category of its own.
InitCategory ==
    /\ tenant_apps \in Catalogs({AppC1, AppCT, AppCT2}, MaxMainApps)
    /\ app_names = <<NameChrome, NameChromeTest>>
    /\ name_index = 0
    /\ custom_app_name = <<>>
    /\ custom_app_enforcement = "no_enforcement"
    /\ ss_category_id = "7"
    /\ test_category_id = "9"
    /\ default_auto_create \in BOOLEAN
    /\ default_dynamic_lookup \in BOOLEAN
    /\ dry_run \in BOOLEAN
    /\ recipe_create_new \in BOOLEAN
    /\ custom_apps = <<>>
    /\ audit_script = "original"
    /\ audit_backup = None
    /\ pc = "upload"
    /\ action = ""
    /\ lib_item_dict = NoMatchYet
    /\ requests = <<>>
    /\ retries = 0
    /\ returned = ""
    /\ exception = ""
    /\ notifications = <<>>
    /\ validated = NotValidated
    /\ maybepkg = <<>>
    /\ parsed_vers = <<>>
    /\ enforcement = <<>>
    /\ parsed_enforcers = <<>>
    /\ listings = 0
    /\ config_enforcement = custom_app_enforcement
    /\ name_keys = KeysOf(app_names)
    /\ test_app = FALSE

SpecCategory == InitCategory /\ [][NextMain]_vars

\* A run goes on as long as a step is left to it: the processor is one
\* sequential program, and every request it waits for is answered (curl
\* returns). The answers are 503 at most MaxRetries times.
SpecMainFair == InitMain /\ [][NextMain]_vars /\ WF_vars(NextMain)

(***************************************************************************)
(* The dynamic lookup over custom apps that share a version                *)
(***************************************************************************)
MaxTieApps == 3

\* update_custom_app is entered with dynamic lookup on, over custom apps
\* whose PKGs all bear version 2.
InitTieBreak ==
    /\ tenant_apps \in Catalogs({AppC1, AppC2, AppCT, AppC6, AppU1, AppU2}, MaxTieApps)
    /\ app_names \in {<<NameChrome>>, <<NameChromeBeta>>}
    /\ custom_app_name = EscapeQuotes(app_names[1])
    /\ custom_app_enforcement = "install_once"
    /\ ss_category_id = None
    /\ default_auto_create = FALSE
    /\ default_dynamic_lookup = TRUE
    /\ dry_run = FALSE
    /\ Entered

SpecTieBreak == InitTieBreak /\ [][NextDynamic]_vars

(***************************************************************************)
(* The version sanitizer on its own                                        *)
(***************************************************************************)
\* The length of the file names' stems and the passes of the sanitizer the
\* model follows.
MaxStemLen == 4
MaxPasses == 2

\* The strings of at most n characters of chars.
Strings(chars, n) == UNION {[1..k -> chars] : k \in 0..n}

\* What a file name ends in: nothing, the extension, an upload identifier
\* before the extension.
Tails ==
    {<<>>, DotPkg,
     <<"_", "a", "a", "a", "a", "1", "1", "1", "1">> \o DotPkg}

\* The state of a processor that has not started its run.
NotStarted ==
    /\ tenant_apps = <<>>
    /\ custom_apps = <<>>
    /\ app_names = <<NameChrome>>
    /\ name_index = 0
    /\ custom_app_name = <<>>   \* main sets it for each name in turn
    /\ custom_app_enforcement = "install_once"
    /\ ss_category_id = None
    /\ default_auto_create = FALSE
    /\ default_dynamic_lookup = FALSE
    /\ dry_run = FALSE
    /\ recipe_create_new = FALSE
    /\ audit_script = "original"
    /\ audit_backup = None
    /\ action = ""
    /\ lib_item_dict = NoMatchYet
    /\ requests = <<>>
    /\ retries = 0
    /\ returned = ""
    /\ exception = ""
    /\ notifications = <<>>
    /\ validated = NotValidated
    /\ listings = 0
    /\ config_enforcement = "install_once"
    /\ test_category_id = None
    /\ name_keys = <<"prod_name">>
    /\ test_app = FALSE

InitSanitize ==
    /\ NotStarted
    /\ pc = "sanitize"
    /\ \E stem \in Strings({"1", "2", ".", " ", "a", "_"}, MaxStemLen), tail \in Tails :
           maybepkg = stem \o tail
    /\ parsed_vers = <<>>
    /\ enforcement = <<>>
    /\ parsed_enforcers = <<>>

\* One more pass of the substitutions: over the file name, then over what
\* the pass before made of it.
Sanitize ==
    /\ pc = "sanitize"
    /\ Len(parsed_vers) < MaxPasses
    /\ parsed_vers' =
           Append(parsed_vers,
                  SanitizeVersion(IF parsed_vers = <<>> THEN maybepkg
                                  ELSE parsed_vers[Len(parsed_vers)]))
    /\ UNCHANGED <<tenant_apps, custom_apps, custom_app_name,
                   custom_app_enforcement, ss_category_id, default_auto_create,
                   default_dynamic_lookup, dry_run, audit_script, audit_backup,
                   pc, action, lib_item_dict, requests, retries, returned,
                   exception, app_names, name_index, recipe_create_new,
                   notifications, maybepkg, validated, listings,
                   config_enforcement, test_category_id, name_keys, test_app,
                   enforcement, parsed_enforcers>>

SpecSanitize == InitSanitize /\ [][Sanitize]_vars

(***************************************************************************)
(* _parse_enforcement on its own                                           *)
(***************************************************************************)
\* How many leading characters of a known value the inputs write in upper
\* case.
MaxUpper == 7

\* value with its first k characters in upper case.
UpperFirst(value, k) ==
    [i \in 1..Len(value) |-> IF i <= k THEN UpperChar(value[i]) ELSE value[i]]

KnownEnforcements ==
    {audit_enforce, continuously_enforce, self_service, no_enforcement, install_once}

\* What the configuration's li_enforcement.type and the API's
\* install_enforcement may hold: a known value, in any mix of cases, another
\* string, nothing.
EnforcementInputs ==
    {UpperFirst(value, k) : value \in KnownEnforcements, k \in 0..MaxUpper}
        \cup {<<>>, <<"o", "n", "c", "e">>, <<"i", "n", "s", "t", "a", "l", "l">>, NoneValue}

InitEnforcement ==
    /\ NotStarted
    /\ pc = "enforcement"
    /\ maybepkg = <<>>
    /\ parsed_vers = <<>>
    /\ enforcement \in EnforcementInputs
    /\ parsed_enforcers = <<>>

\* What the next call is handed: the value, then what the call before
\* returned.
EnforcementArgument ==
    IF parsed_enforcers = <<>> THEN enforcement
    ELSE parsed_enforcers[Len(parsed_enforcers)]

\* One more call: on the value, then on what the call before returned; no
\* call follows one that raised.
ParseEnforcement ==
    /\ pc = "enforcement"
    /\ Len(parsed_enforcers) < MaxPasses
    /\ EnforcementArgument # AttributeError
    /\ parsed_enforcers' = Append(parsed_enforcers, parse_enforcement(EnforcementArgument))
    /\ UNCHANGED <<tenant_apps, custom_apps, custom_app_name,
                   custom_app_enforcement, ss_category_id, default_auto_create,
                   default_dynamic_lookup, dry_run, audit_script, audit_backup,
                   pc, action, lib_item_dict, requests, retries, returned,
                   exception, app_names, name_index, recipe_create_new,
                   notifications, maybepkg, parsed_vers, validated, listings,
                   config_enforcement, test_category_id, name_keys, test_app,
                   enforcement>>

SpecEnforcement == InitEnforcement /\ [][ParseEnforcement]_vars

(***************************************************************************)
(* Properties of _find_lib_item_match                                      *)
(***************************************************************************)
\* The custom apps of the tenant bearing the target name, in catalog order.
ExactHits == SelectSeq(tenant_apps, LAMBDA app : app.name = custom_app_name)

\* Those of them shown in Self Service under the configured category.
SelfServiceHits ==
    SelectSeq(ExactHits,
              LAMBDA app : /\ app.show_in_self_service = TRUE
                           /\ app.self_service_category_id = ss_category_id)

\* The narrowing by category collapses the hits to one.
Narrows ==
    /\ custom_app_enforcement = "no_enforcement"
    /\ ss_category_id # None
    /\ Len(SelfServiceHits) = 1

\* _find_lib_item_match has returned or raised in this run.
Looked == lib_item_dict.via # "unset"

\* A step of update_custom_app in which _find_lib_item_match ran.
MatchStep ==
    /\ pc = "update"
    /\ pc' # "update"
    /\ exception' \notin {"ProcessorError", "AttributeError"}

\* C1: when no custom app bears the target name, the match is False
\* followed by a create request if auto-create is on, whatever the dynamic
\* lookup flag; else, if dynamic lookup is on, the result of a dynamic
\* lookup without seed over all the custom apps; else False with no create
\* or update request sent.
C1_NoHitOutcome ==
    (Looked /\ ExactHits = <<>>) =>
        IF default_auto_create
        THEN /\ lib_item_dict.ret = "False"
             /\ ~lib_item_dict.dynamic.ran
             /\ requests # <<>>
             /\ \A i \in 1..Len(requests) : requests[i].method = "POST"
        ELSE IF default_dynamic_lookup
        THEN /\ lib_item_dict.dynamic.ran
             /\ ~lib_item_dict.dynamic.seeded
             /\ lib_item_dict.dynamic.threshold_pkgs = threshold_pkgs(tenant_apps)
             /\ lib_item_dict.dynamic.possible_pkgs = threshold_pkgs(tenant_apps)
             /\ lib_item_dict.ret = lib_item_dict.dynamic.ret
             /\ lib_item_dict.app = lib_item_dict.dynamic.app
        ELSE /\ lib_item_dict.ret = "False"
             /\ ~lib_item_dict.dynamic.ran
             /\ requests = <<>>
             /\ returned = "False"

\* No hit in a catalog that is not empty, both flags on: the create request
\* went out and no dynamic lookup ran.
C1_Witness ==
    /\ Looked
    /\ ExactHits = <<>>
    /\ tenant_apps # <<>>
    /\ default_auto_create
    /\ default_dynamic_lookup
    /\ lib_item_dict.ret = "False"
    /\ Len(requests) = 1
    /\ requests[1].method = "POST"

\* C2: when exactly one custom app bears the target name, the match is that
\* custom app, whatever the flags, the enforcement and the category id, and
\* neither the narrowing by category nor the dynamic lookup has run.
C2_OneHitResolved ==
    (Looked /\ Len(ExactHits) = 1) =>
        /\ lib_item_dict.ret = "app"
        /\ lib_item_dict.app = ExactHits[1]
        /\ lib_item_dict.via = "exact"
        /\ ~lib_item_dict.dynamic.ran

\* One hit among other custom apps with both flags on and a category id
\* known: the hit is the match.
C2_Witness ==
    /\ Looked
    /\ Len(ExactHits) = 1
    /\ Len(tenant_apps) > 1
    /\ default_auto_create
    /\ default_dynamic_lookup
    /\ ss_category_id # None
    /\ lib_item_dict.ret = "app"
    /\ lib_item_dict.app = ExactHits[1]

\* C3: with two or more custom apps bearing the target name, the match is
\* made by the narrowing by category if and only if the enforcement is
\* no_enforcement, a category id is known and exactly one hit is shown in
\* Self Service under that category id; the match is then that hit.
C3_CategoryNarrowing ==
    [][(MatchStep /\ Len(ExactHits) >= 2) =>
          /\ lib_item_dict'.via = "category" <=> Narrows
          /\ lib_item_dict'.via = "category" =>
                 /\ lib_item_dict'.ret = "app"
                 /\ lib_item_dict'.app = SelfServiceHits[1]]_vars

\* Three hits, of which one only is shown in Self Service under the
\* category: it is the match.
C3_Witness ==
    /\ lib_item_dict.via = "category"
    /\ Len(ExactHits) = 3
    /\ Len(SelfServiceHits) = 1
    /\ lib_item_dict.app = SelfServiceHits[1]
\* C4: with two or more custom apps bearing the target name, the narrowing
\* by category not collapsing them to one and dynamic lookup off, the match
\* is None and every hit is reported, whether the created_at of the hits
\* carry fractional seconds or not.
C4_AmbiguousReportsEveryHit ==
    [][(/\ MatchStep
        /\ Len(ExactHits) >= 2
        /\ ~Narrows
        /\ ~default_dynamic_lookup) =>
          /\ lib_item_dict'.ret = "None"
          /\ lib_item_dict'.reported = ExactHits
          /\ lib_item_dict'.notified
          /\ exception' = ""]_vars

\* C5: a match that is a custom app is exactly one custom app of the list
\* _find_lib_item_match was given, whatever the list and the flags.
C5_ResolvedIsOneCatalogEntry ==
    lib_item_dict.ret = "app" =>
        /\ Cardinality({i \in 1..Len(tenant_apps) :
                           tenant_apps[i] = lib_item_dict.app}) = 1
        /\ Cardinality({i \in 1..Len(tenant_apps) :
                           tenant_apps[i].id = lib_item_dict.app.id}) = 1

\* A dynamic lookup over three custom apps has resolved one of them.
C5_Witness ==
    /\ lib_item_dict.ret = "app"
    /\ lib_item_dict.via = "dynamic"
    /\ Len(tenant_apps) = 3
    /\ \E i \in 1..3 : tenant_apps[i] = lib_item_dict.app
(***************************************************************************)
(* Properties of _find_lib_item_dynamic                                    *)
(***************************************************************************)
\* The dynamic lookup of this run, with what it computed.
Dynamic == lib_item_dict.dynamic

\* The PKG names of the custom apps of the tenant.
CatalogPkgs == {Basename(tenant_apps[i].file_key) : i \in 1..Len(tenant_apps)}

\* The candidates the selection is made among.
Candidates == {Dynamic.possible_pkgs[i] : i \in 1..Len(Dynamic.possible_pkgs)}

\* The candidates no candidate has a higher version than.
Newest ==
    {p \in Candidates :
        \A q \in Candidates :
            ~VersionLess(SanitizeVersion(p), SanitizeVersion(q))}

\* The custom app behind candidate p is older than the one behind q: by
\* file_updated, then by updated_at.
Older(p, q) ==
    LET a == app_record(tenant_apps, p)
        b == app_record(tenant_apps, q)
    IN  \/ Instant(a.file_updated) < Instant(b.file_updated)
        \/ /\ Instant(a.file_updated) = Instant(b.file_updated)
           /\ Instant(a.updated_at) < Instant(b.updated_at)

\* C6: in a dynamic lookup seeded with several hits, a resolved custom app
\* has the PKG name of one of the hits, also when no PKG name of a hit
\* reaches the similarity limit.
C6_SeededResolvesSeedFile ==
    (Dynamic.ran /\ Dynamic.seeded /\ Dynamic.ret = "app") =>
        \E i \in 1..Len(ExactHits) :
            Basename(ExactHits[i].file_key) = Basename(Dynamic.app.file_key)

\* C7: the PKG name the dynamic lookup selects has a sanitized version at
\* least that of every other candidate, also after the tie-break.
C7_NewestVersionSelected ==
    (Dynamic.ran /\ Dynamic.custom_pkg_name # <<>>) =>
        \A q \in Candidates :
            ~VersionLess(SanitizeVersion(Dynamic.custom_pkg_name),
                         SanitizeVersion(q))

\* C8: when two or more candidates share the highest sanitized version, the
\* one selected is among them the one whose custom app has the earliest
\* file_updated and, file_updated being equal, the earliest updated_at.
C8_OldestOfNewestSelected ==
    (/\ Dynamic.ran
     /\ Dynamic.custom_pkg_name # <<>>
     /\ Cardinality(Newest) >= 2
     /\ \A p, q \in Newest : SanitizeVersion(p) = SanitizeVersion(q)) =>
        /\ Dynamic.custom_pkg_name \in Newest
        /\ \A q \in Newest : ~Older(q, Dynamic.custom_pkg_name)

C10_NothingFoundIsFalse ==
    (/\ Dynamic.ran
     /\ \/ Dynamic.threshold_pkgs = <<>>
        \/ /\ Dynamic.custom_pkg_name # <<>>
           /\ Dynamic.matching_entry = <<>>) =>
        /\ Dynamic.ret = "False"
        /\ Dynamic.exc = ""
        /\ Dynamic.app = NoApp
        /\ lib_item_dict.ret = "False"
        /\ exception = ""

\* A PKG name was selected, the custom apps bearing it are several and none
\* of them bears the target name: False.
C10_Witness ==
    /\ Dynamic.ran
    /\ Dynamic.custom_pkg_name # <<>>
    /\ Dynamic.matching_entry = <<>>
    /\ Cardinality({i \in 1..Len(tenant_apps) :
           Basename(tenant_apps[i].file_key) = Dynamic.custom_pkg_name}) >= 2
    /\ Dynamic.ret = "False"
    /\ returned = "False"

(***************************************************************************)
(* Properties of the version sanitizer                                     *)
(***************************************************************************)
\* C11: the sanitizer is idempotent: for every file name, sanitizing what
\* the sanitizer returned gives it back unchanged.
C11_SanitizerIdempotent ==
    \A i \in 2..Len(parsed_vers) : parsed_vers[i] = parsed_vers[i - 1]

\* A file name with an upload identifier, spaces, letters and a dot run was
\* sanitized twice, to a version that is not empty.
C11_Witness ==
    /\ Len(parsed_vers) >= 2
    /\ maybepkg = <<"1", " ", ".", "2">> \o <<"_", "a", "a", "a", "a", "1", "1", "1", "1">> \o DotPkg
    /\ parsed_vers[1] = <<"1", ".", "2">>

(***************************************************************************)
(* Properties of the similarity ranking                                    *)
(***************************************************************************)
\* The place at which pkg is first met in the sequence found.
FirstAt(pkg, found) ==
    CHOOSE i \in 1..Len(found) :
        found[i] = pkg /\ \A j \in 1..(i - 1) : found[j] # pkg

SameScore(p, q) ==
    /\ RatioGeq(similarity_score(p), similarity_score(q))
    /\ RatioGeq(similarity_score(q), similarity_score(p))

\* ranking[i] stands before ranking[j] by right: its score is higher, or
\* the scores are equal and it was met first in found.
RankedBefore(ranking, found, i, j) ==
    /\ RatioGeq(similarity_score(ranking[i]), similarity_score(ranking[j]))
    /\ SameScore(ranking[i], ranking[j])
           => FirstAt(ranking[i], found) < FirstAt(ranking[j], found)

IsRanking(ranking, found) ==
    /\ {ranking[i] : i \in 1..Len(ranking)} = {found[i] : i \in 1..Len(found)}
    /\ \A i, j \in 1..Len(ranking) : i < j => RankedBefore(ranking, found, i, j)

\* C12: the similarity ranking holds every PKG name of the snapshot, by
\* descending score, and names of equal score stand in the order in which
\* they first appear in the snapshot; the candidates are the names of the
\* ranking at or above the limit, in its order.
C12_RankingDescendingStable ==
    Dynamic.ran =>
        /\ IsRanking(sorted_similar_pkgs(custom_apps), all_pkg_names(custom_apps))
        /\ Dynamic.threshold_pkgs =
               SelectSeq(sorted_similar_pkgs(custom_apps), AboveLimit)

\* The lookup ranked a snapshot in which two names share a score and a
\* name met later has a higher score than a name met before it.
C12_Witness ==
    /\ Dynamic.ran
    /\ \E i, j \in 1..Len(sorted_similar_pkgs(custom_apps)) :
           /\ i < j
           /\ SameScore(sorted_similar_pkgs(custom_apps)[i],
                        sorted_similar_pkgs(custom_apps)[j])
    /\ \E i, j \in 1..Len(sorted_similar_pkgs(custom_apps)) :
           /\ i < j
           /\ FirstAt(sorted_similar_pkgs(custom_apps)[j], all_pkg_names(custom_apps))
                  < FirstAt(sorted_similar_pkgs(custom_apps)[i], all_pkg_names(custom_apps))

(***************************************************************************)
(* Properties of the version ordering                                      *)
(***************************************************************************)
\* The candidates whose sanitized version is no valid version.
InvalidCandidates == {p \in Candidates : ~ValidVersion(pkg_version(p))}

\* C13: a candidate whose sanitized version is empty or invalid never
\* makes the version ordering raise: the lookup still produces an outcome,
\* and such a candidate is selected only when no candidate has a valid
\* version.
C13_InvalidVersionNeverRaises ==
    (Dynamic.ran /\ InvalidCandidates # {}) =>
        /\ Dynamic.exc # "InvalidVersion"
        /\ lib_item_dict.exc # "InvalidVersion"
        /\ (Dynamic.custom_pkg_name \in InvalidCandidates
               => InvalidCandidates = Candidates)

(***************************************************************************)
(* Properties of the tie-break by timestamps                               *)
(***************************************************************************)
\* The candidates the code holds for the highest version, when the lookup
\* got as far as the version ordering.
Highest ==
    IF Dynamic.ran /\ Dynamic.exc # "InvalidVersion" /\ Dynamic.possible_pkgs # <<>>
    THEN highest_vers(pkgs_versions_sorted(Dynamic.possible_pkgs))
    ELSE <<>>

\* The tie-break compares timestamps: several candidates are held for the
\* highest version.
TieBroken == Len(Highest) > 1

\* The timestamps the tie-break reads: file_updated and updated_at of the
\* custom app found for each of the highest.
TieTimestamps ==
    UNION {{app_record(custom_apps, Highest[i]).file_updated,
            app_record(custom_apps, Highest[i]).updated_at} : i \in 1..Len(Highest)}

\* ts is written in one of the two accepted formats.
Accepted(ts) == ts.fmt \in {"frac", "nofrac"}

\* The custom app found for p is not younger than the one found for q, by
\* the instants of file_updated, then of updated_at.
NotYounger(p, q) ==
    LET a == app_record(custom_apps, p)
        b == app_record(custom_apps, q)
    IN  \/ Instant(a.file_updated) < Instant(b.file_updated)
        \/ /\ Instant(a.file_updated) = Instant(b.file_updated)
           /\ Instant(a.updated_at) <= Instant(b.updated_at)

\* C14: whenever the tie-break compares timestamps, values in either
\* accepted format are parsed and compared (a candidate whose custom app is
\* the oldest by instants is selected, and nothing is raised), and a value
\* in neither format aborts the run with ValueError: no candidate is
\* selected, no outcome is returned, no request is sent.
C14_TimestampsParsedOrFatal ==
    TieBroken =>
        IF \A ts \in TieTimestamps : Accepted(ts)
        THEN /\ Dynamic.ret # "raise"
             /\ InSeq(Dynamic.custom_pkg_name, Highest)
             /\ \A i \in 1..Len(Highest) :
                    NotYounger(Dynamic.custom_pkg_name, Highest[i])
        ELSE /\ Dynamic.ret = "raise"
             /\ Dynamic.exc = "ValueError"
             /\ Dynamic.custom_pkg_name = <<>>
             /\ lib_item_dict.ret = "raise"
             /\ pc = "raised"
             /\ exception = "ValueError"
             /\ returned = ""
             /\ requests = <<>>

\* A tie-break over timestamps of both formats selected a candidate, the
\* one of the custom app written without fractional seconds.
C14_WitnessBothFormats ==
    /\ TieBroken
    /\ \E ts \in TieTimestamps : ts.fmt = "frac"
    /\ \E ts \in TieTimestamps : ts.fmt = "nofrac"
    /\ \A ts \in TieTimestamps : Accepted(ts)
    /\ Dynamic.ret = "app"
    /\ Dynamic.app.file_updated.fmt = "nofrac"

\* A tie-break met a timestamp in neither format and the run was aborted.
C14_Witness ==
    /\ TieBroken
    /\ \E ts \in TieTimestamps : ~Accepted(ts)
    /\ pc = "raised"

(***************************************************************************)
(* Properties of the entry the selected PKG is mapped back to              *)
(***************************************************************************)
\* The custom apps whose PKG is the selected one.
Sharers ==
    SelectSeq(custom_apps,
              LAMBDA app : Basename(app.file_key) = Dynamic.custom_pkg_name)

\* The name the lookup was seeded with: the one the exact hits bear.
SeedLabel == lib_item_dict.app_picker[1].name

\* C19: the entry the dynamic lookup resolves to has exactly the selected
\* PKG as its file, and when the lookup was seeded and several custom apps
\* share that PKG, the entries kept, the resolved one among them, bear the
\* seed name.
C19_EntryByExactFilenameAndName ==
    (Dynamic.ran /\ Dynamic.ret = "app") =>
        /\ Basename(Dynamic.app.file_key) = Dynamic.custom_pkg_name
        /\ (Dynamic.seeded /\ Len(Sharers) > 1) =>
               /\ \A i \in 1..Len(Dynamic.matching_entry) :
                      Dynamic.matching_entry[i].name = SeedLabel
               /\ Dynamic.app.name = SeedLabel

(***************************************************************************)
(* Properties of _validate_curl_response                                   *)
(***************************************************************************)
\* The last call of slack_notify reported the failure of the action for.
ErrorReported(for) ==
    /\ notifications # <<>>
    /\ notifications[Len(notifications)] = [status |-> "ERROR", header |-> "Failed to", action |-> for]

\* C20: in _validate_curl_response a status of 204 or below is success; a
\* 503 has the same operation run again only when the action is create or
\* update; every other response, whatever the action, is reported as an
\* error (error notification, then ProcessorError) and never returns
\* silently to the caller.
C20_ValidatedOrReported ==
    validated.ran =>
        IF validated.http_code <= 204 THEN validated.ret = "True"
        ELSE IF validated.http_code = 503 /\ validated.action = "create"
        THEN validated.ret = "create_custom_app"
        ELSE IF validated.http_code = 503 /\ validated.action = "update"
        THEN validated.ret = "update_custom_app"
        ELSE /\ validated.ret = "raise"
             /\ ErrorReported(validated.action)
             /\ pc = "raised"
             /\ exception = "ProcessorError"

(***************************************************************************)
(* Properties of main                                                      *)
(***************************************************************************)
\* The operator was told of duplicates: the match of some name of this run
\* was ambiguous.
AmbiguousReported ==
    \E i \in 1..Len(notifications) : notifications[i].header = "Found Duplicates"

\* C15: once the match of an app name was ambiguous and the operator
\* notified, the run sends no create and no update request any more, for
\* that name or for the names that follow.
C15_AmbiguousAbortsRun ==
    [][AmbiguousReported => requests' = requests]_vars

\* C16: in a dry run no modifying request is sent: neither the POST of the
\* PKG to the storage, nor a create POST, nor an update PATCH, whatever
\* the matches come to and for every app name.
C16_DryRunSendsNothing ==
    dry_run = TRUE => requests = <<>>

\* A dry run went through two names, auto-create on, and ended: the first
\* name had no entry (a create was due), the second resolved to an entry
\* (an update was due).
C16_Witness ==
    /\ dry_run = TRUE
    /\ pc = "done"
    /\ app_names = <<NameQuoted, NameChrome>>
    /\ default_auto_create = TRUE
    /\ recipe_create_new = FALSE
    /\ tenant_apps = <<AppC1>>
    /\ lib_item_dict.ret = "app"
    /\ returned = "True"

\* The request is a create POST.
IsCreate(request) == request.method = "POST" /\ request.url = "api_custom_apps_url"

\* A create POST went out for the name.
CreateSent(sent, name) ==
    \E i \in 1..Len(sent) : IsCreate(sent[i]) /\ sent[i].name = EscapeQuotes(name)

\* With create_new: every name is handed to create_custom_app, whose POST
\* goes out unless the run is a dry run; the custom apps are never
\* fetched, nothing is matched, no PATCH is sent; a run that went through
\* all its names has sent a create POST for each of them.
CreateNewStep ==
    /\ pc = "next" => pc' = "create"
    /\ (pc = "create" /\ dry_run # TRUE)
           => /\ requests' = Append(requests, CreateRequest)
              /\ requests'[Len(requests')].name = EscapeQuotes(app_names[name_index])
    /\ custom_apps' = <<>>
    /\ lib_item_dict' = NoMatchYet
    /\ validated'.action # "get"
    /\ \A i \in 1..Len(requests') : requests'[i].method # "PATCH"
    /\ (pc' = "done" /\ name_index' = Len(app_names) /\ dry_run # TRUE)
           => \A k \in 1..Len(app_names) : CreateSent(requests', app_names[k])

\* Without create_new: a create POST goes out of the update flow only,
\* after a match that found no entry, auto-create being on (or again
\* after the 503 that answered such a POST).
NoCreateNewStep ==
    (requests' # requests /\ IsCreate(requests'[Len(requests')]))
        => /\ lib_item_dict'.ret = "False"
           /\ lib_item_dict'.via # "unset"
           /\ custom_apps' = tenant_apps
           /\ default_auto_create = TRUE
           /\ pc = "update" \/ (pc = "create" /\ retries > 0)

\* C17: when create_new is True, each app name results in a create request
\* and the custom apps are neither fetched nor matched nor updated for it;
\* otherwise a create request only ever comes from the update flow, after
\* the match found no entry and with auto-create on.
C17_CreateNewRouting ==
    [][IF recipe_create_new = TRUE THEN CreateNewStep ELSE NoCreateNewStep]_vars

\* A run with create_new went through two names, over custom apps that
\* bear the second name already, and sent the upload and two create POSTs.
C17_Witness ==
    /\ recipe_create_new = TRUE
    /\ pc = "done"
    /\ app_names = <<NameQuoted, NameChrome>>
    /\ tenant_apps = <<AppC1, AppC2>>
    /\ Len(requests) = 3
    /\ IsCreate(requests[2]) /\ requests[2].name = EscapeQuotes(NameQuoted)
    /\ IsCreate(requests[3]) /\ requests[3].name = NameChrome

\* The name main took from the configuration for this pass of its loop.
ConfiguredName == app_names[name_index]

\* C18: the exact-name lookup compares the names of the custom apps with
\* the configured name itself: whatever the name, a single quote in it
\* included, the custom apps bearing exactly that name are the exact hits.
C18_ExactHitsBearConfiguredName ==
    Looked =>
        lib_item_dict.app_picker =
            SelectSeq(custom_apps, LAMBDA app : app.name = ConfiguredName)

(***************************************************************************)
(* Properties of a run as a whole                                          *)
(***************************************************************************)
\* C21: the custom apps are fetched once per run: the listing GET is sent
\* at most once, and every match of the run, for each name and each
\* retry, is decided on the list that GET returned.
C21_FetchedOncePerRun ==
    /\ listings <= 1
    /\ Looked => custom_apps = tenant_apps

(***************************************************************************)
(* Properties of update_custom_app                                         *)
(***************************************************************************)
\* The one request the step sent.
Sent == requests'[Len(requests')]

\* C22: when the match returns an entry, update_custom_app sends, unless
\* the run is a dry run, exactly one request: a PATCH to the id of that
\* entry with the file key of the PKG uploaded in this run, the audit
\* script added if and only if the entry is under continuous enforcement;
\* in a dry run it sends nothing.
C22_ResolvedIsPatchedOnce ==
    [][(MatchStep /\ lib_item_dict'.ret = "app") =>
          IF dry_run = TRUE THEN requests' = requests
          ELSE /\ Len(requests') = Len(requests) + 1
               /\ SubSeq(requests', 1, Len(requests)) = requests
               /\ Sent.method = "PATCH"
               /\ Sent.id = lib_item_dict'.app.id
               /\ Sent.file_key = s3_key
               /\ Sent.audit_script
                      = (lib_item_dict'.app.install_enforcement = "continuously_enforce")]_vars

\* The match returned an entry under continuous enforcement while the
\* configuration asks for another one, and the PATCH with the audit script
\* went out to it.
C22_Witness ==
    /\ pc = "validate"
    /\ action = "update"
    /\ lib_item_dict.ret = "app"
    /\ lib_item_dict.app.install_enforcement = "continuously_enforce"
    /\ config_enforcement = "install_once"
    /\ requests[Len(requests)].id = lib_item_dict.app.id
    /\ requests[Len(requests)].audit_script = TRUE

(***************************************************************************)
(* Properties of _parse_enforcement                                        *)
(***************************************************************************)
\* The value each known value is translated to.
Counterpart(value) ==
    CASE value = audit_enforce -> continuously_enforce
      [] value = continuously_enforce -> audit_enforce
      [] value = self_service -> no_enforcement
      [] value = no_enforcement -> self_service
      [] value = install_once -> install_once

\* Whether the value was parsed once, twice.
ParsedOnce == Len(parsed_enforcers) >= 1

ParsedTwice == Len(parsed_enforcers) >= 2

\* C23: _parse_enforcement is its own inverse on the five known enforcement
\* values (audit_enforce <-> continuously_enforce, self_service <->
\* no_enforcement, install_once <-> install_once): applying it twice returns
\* the original value; a string that is one of the five when lowered is
\* translated as its lowered form is; any other string yields False.
C23_ParseEnforcementInvolution ==
    /\ (ParsedOnce /\ IsStr(enforcement) /\ lower(enforcement) \in KnownEnforcements)
          => parsed_enforcers[1] = Counterpart(lower(enforcement))
    /\ (ParsedTwice /\ IsStr(enforcement) /\ lower(enforcement) \in KnownEnforcements)
          => parsed_enforcers[2] = lower(enforcement)
    /\ (ParsedTwice /\ enforcement \in KnownEnforcements)
          => parsed_enforcers[2] = enforcement
    /\ (ParsedOnce /\ IsStr(enforcement) /\ lower(enforcement) \notin KnownEnforcements)
          => parsed_enforcers[1] = False

\* "Audit_enforce" was parsed twice: to continuously_enforce, then to
\* audit_enforce.
C23_Witness ==
    /\ ParsedTwice
    /\ enforcement = UpperFirst(audit_enforce, 1)
    /\ parsed_enforcers = <<continuously_enforce, audit_enforce>>

\* C23, read to the letter: applying _parse_enforcement twice to one of the
\* five known values returns it, and any other value yields False.
C23_OthersYieldFalse ==
    /\ (ParsedTwice /\ enforcement \in KnownEnforcements)
          => parsed_enforcers[2] = enforcement
    /\ (ParsedOnce /\ enforcement \notin KnownEnforcements)
          => parsed_enforcers[1] = False

(***************************************************************************)
(* Properties of the creation out of update_custom_app                     *)
(***************************************************************************)
\* update_custom_app ends in create_custom_app sending its POST.
CreatesFromUpdate ==
    /\ pc = "update"
    /\ Len(requests') = Len(requests) + 1
    /\ IsCreate(Sent)

\* C24: update_custom_app issues a create request only when no catalog entry
\* bears the target name: two or more entries named like the target never
\* end in the creation of a further entry with that name.
C24_CreatesOnlyWithoutHit ==
    [][CreatesFromUpdate => ExactHits = <<>>]_vars

(***************************************************************************)
(* Properties of upload_custom_app                                         *)
(***************************************************************************)
\* upload_custom_app sent the PKG and the answer was no HTTP success status.
UploadNotAnswered ==
    /\ pc = "upload"
    /\ validated'.action = "upload"
    /\ validated'.http_code \notin 200..204

\* C25: the create/update cycle starts only after the presign request and
\* the upload of the PKG were answered with an HTTP success status: when the
\* upload fails in transport (curl exits non-zero), upload_custom_app does
\* not return True and no create or update follows.
C25_CycleOnlyAfterUpload ==
    [][UploadNotAnswered => (returned' # "True" /\ pc' # "next")]_vars

(***************************************************************************)
(* Properties of kandji_customize_create_update                            *)
(***************************************************************************)
\* No invocation of kandji_customize_create_update is under way: main is
\* between two names, has ended, or was ended by an exception.
OutsideCreateUpdate == pc \in {"next", "done", "raised"}

\* C26: every invocation of kandji_customize_create_update that customizes
\* the audit script ends with the script restored from its backup, also
\* when the create or update ends in an error, and the script is never
\* customized twice without a restore in between: the backup always holds
\* the original.
C26_AuditScriptRestored ==
    /\ OutsideCreateUpdate => audit_script = "original"
    /\ audit_backup \in {None, "original"}

\* C27: processing one app name leaves the configured enforcement mode
\* unchanged for the next: the mode main goes on to the next name with, and
\* the mode of every create request, is the one derived from the
\* configuration, whatever enforcement a matched custom app had.
C27_EnforcementKeptAcrossNames ==
    /\ pc = "next" => custom_app_enforcement = config_enforcement
    /\ \A i \in 1..Len(requests) :
           IsCreate(requests[i]) => requests[i].install_enforcement = config_enforcement

(***************************************************************************)
(* Properties of the match over reordered snapshots                        *)
(***************************************************************************)
\* The snapshot with its entries in the order perm.
Reordered(perm) == [i \in DOMAIN tenant_apps |-> tenant_apps[perm[i]]]

\* What _find_lib_item_match returns for the snapshot in the order perm, all
\* other inputs being those of the run.
MatchOf(perm, legacy) ==
    find_lib_item_match(Reordered(perm), custom_app_name, default_auto_create,
                        default_dynamic_lookup, custom_app_enforcement,
                        ss_category_id, legacy)

\* Two results are the same outcome and, when Resolved, the same entry.
SameOutcome(found, other) ==
    /\ found.ret = other.ret
    /\ found.ret = "app" => found.app.id = other.app.id

\* C28: the match outcome depends only on the set of catalog entries, not on
\* their order in the snapshot: once the resolver has run, it returns for
\* every permutation of the snapshot, all other inputs alike, the same
\* outcome and, when Resolved, the same entry.
C28_OrderIndependent ==
    (Looked /\ custom_apps = tenant_apps) =>
        \A legacy \in BOOLEAN :
            \A perm \in Permutations(DOMAIN tenant_apps) :
                SameOutcome(MatchOf([i \in DOMAIN tenant_apps |-> i], legacy),
                            MatchOf(perm, legacy))

(***************************************************************************)
(* Properties of the retries after HTTP 503                                *)
(***************************************************************************)
\* _validate_curl_response is called for a create or update answered 503.
Answered503 ==
    /\ pc = "validate"
    /\ validated'.http_code = 503

\* update_custom_app runs again after a 503 and its GET succeeds.
UpdateAgain ==
    /\ pc = "update"
    /\ retries > 0
    /\ validated'.action = "get"
    /\ validated'.ret = "True"

\* The run has ended: main returned, or an exception left it.
Terminated == pc \in {"done", "raised"}

CategoryOfName == IF test_app = TRUE THEN test_category_id ELSE ss_category_id

\* C30: category narrowing filters by the category id that belongs to the
\* app name being processed: what it resolves for the test name is shown in
\* Self Service under the test category id, and for the prod or undefined
\* name under the prod category id.
C30_NarrowsByCategoryOfName ==
    [][(MatchStep /\ lib_item_dict'.via = "category") =>
          /\ lib_item_dict'.app.show_in_self_service = TRUE
          /\ lib_item_dict'.app.self_service_category_id = CategoryOfName]_vars

=============================================================================
